---- MODULE Spec2Model ----
(***************************************************************************)
(* dupe-cli: duplicate-detection engine.                                   *)
(*                                                                         *)
(* A string is a sequence of one-character strings.  A byte slice holding  *)
(* a digest is a tuple; the nil slice is the empty tuple.                  *)
(***************************************************************************)
EXTENDS Integers, Sequences, FiniteSets, TLC

VARIABLES
    disk,         \* the file system: sequence of directory entries, in walk order
    Directories,  \* Scanner.Directories
    RefDirs,      \* Scanner.RefDirs
    Options,      \* Matcher.Options
    files,        \* Scanner.files: the File records of the last scan
    filesBySize,  \* Scanner.filesBySize
    groups,       \* Engine.groups
    accumulated,  \* Engine.groups as it was right before the final sort
    ret,          \* what the last call returned
    wcall,        \* the last call of the filename scorer: arguments and results
    groupFiles,   \* the File records the groups of Engine.groups point to
    mu,           \* Engine.mu: "free" or the goroutine that holds it
    calls,        \* the calls in flight on the engine, one per goroutine:
                  \* position and locals
    arrays,       \* the backing arrays made for Engine.groups, oldest first;
                  \* Engine.groups is a slice of the last one
    returned      \* the slices of groups handed to callers: array and contents

\* what the goroutines of the concurrent specification share besides the engine
concVars == <<mu, calls, arrays, returned>>

vars == <<disk, Directories, RefDirs, Options, files, filesBySize, groups,
          accumulated, ret, wcall, groupFiles, mu, calls, arrays, returned>>

engineVars == <<disk, Directories, RefDirs, Options, files, filesBySize,
                groups, accumulated, ret, groupFiles, mu, calls, arrays,
                returned>>

----------------------------------------------------------------------------
(* Bounds *)

MaxNameLen == 4      \* longest file name of the filename scorer's inputs
MaxListChars == 2    \* most characters in a token list handed to compareWords
MaxWords == 2        \* longest token list handed to compareWords directly
MaxOtherLen == 1     \* longest name of the second file when it is not a copy
MaxExcludeLen == 3   \* longest exclude string handed to NewScanner
MaxFiles == 3        \* number of files on the disk the engine scans
MaxRuns == 2         \* calls of FindDuplicates while queries run beside them

----------------------------------------------------------------------------
(* Generic helpers *)

Max(a, b) == IF a > b THEN a ELSE b

Range(s) == {s[i] : i \in 1..Len(s)}

RECURSIVE SumSeq(_)
SumSeq(s) == IF s = <<>> THEN 0 ELSE Head(s) + SumSeq(Tail(s))

\* s without its i-th element: append(s[:i], s[i+1:]...)
RemoveAt(s, i) == SubSeq(s, 1, i - 1) \o SubSeq(s, i + 1, Len(s))

StringsUpTo(alphabet, n) == UNION {[1..k -> alphabet] : k \in 0..n}

----------------------------------------------------------------------------
(* package strings / unicode / filepath, as far as the scorer uses them *)

NameAlphabet == {"a", "B", "-", "."}
WordAlphabet == {"a", "1"}

LowerRune(c) == IF c = "A" THEN "a" ELSE IF c = "B" THEN "b" ELSE c

ToLower(s) == [i \in 1..Len(s) |-> LowerRune(s[i])]

IsDigit(c) == c \in {"0", "1", "2", "3", "4", "5", "6", "7", "8", "9"}

IsSpace(c) == c = " "

HasSuffix(s, suffix) ==
    /\ Len(suffix) <= Len(s)
    /\ SubSeq(s, Len(s) - Len(suffix) + 1, Len(s)) = suffix

TrimSuffix(s, suffix) ==
    IF HasSuffix(s, suffix) THEN SubSeq(s, 1, Len(s) - Len(suffix)) ELSE s

\* filepath.Ext: the suffix beginning at the final dot of a base name
Ext(path) ==
    LET dots == {i \in 1..Len(path) : path[i] = "."}
    IN  IF dots = {} THEN <<>>
        ELSE LET last == CHOOSE i \in dots : \A j \in dots : j <= i
             IN  SubSeq(path, last, Len(path))

\* strings.Contains(s, substr)
Contains(s, substr) ==
    \E i \in 1..(Len(s) - Len(substr) + 1) :
        SubSeq(s, i, i + Len(substr) - 1) = substr

ContainsRune(s, c) == \E i \in 1..Len(s) : s[i] = c

\* strings.Fields: the maximal runs of non-space characters, in order
RECURSIVE FieldsFrom(_, _)
FieldsFrom(s, cur) ==
    IF s = <<>> THEN (IF cur = <<>> THEN <<>> ELSE <<cur>>)
    ELSE IF IsSpace(Head(s))
         THEN (IF cur = <<>> THEN <<>> ELSE <<cur>>) \o FieldsFrom(Tail(s), <<>>)
         ELSE FieldsFrom(Tail(s), Append(cur, Head(s)))

Fields(s) == FieldsFrom(s, <<>>)

----------------------------------------------------------------------------
(* internal/fs/file.go: extractWords *)

Separators == {"-", "_", ".", ",", "(", ")", "[", "]", "{", "}"}

ReplaceSeparators(s) ==
    [i \in 1..Len(s) |-> IF s[i] \in Separators THEN " " ELSE s[i]]

MinTokenLen == 2

\* bug variant: the length filter lets one-character parts through
KeepLongOffByOne(parts) == SelectSeq(parts, LAMBDA p : Len(p) >= MinTokenLen - 1)

KeepLong(parts) == SelectSeq(parts, LAMBDA p : Len(p) >= MinTokenLen)

extractWords(filename) ==
    LET lower    == ToLower(filename)
        stripped == TrimSuffix(lower, Ext(lower))
        replaced == ReplaceSeparators(stripped)
        words    == KeepLong(Fields(replaced))
    IN  IF Len(words) = 0 THEN <<ToLower(replaced)>> ELSE words

----------------------------------------------------------------------------
(* internal/matcher/matcher.go: isSimilar, compareWords *)

isNumeric(s) == (\A i \in 1..Len(s) : IsDigit(s[i])) /\ Len(s) > 0

isSimilar(word1, word2) ==
    IF Contains(word1, word2) \/ Contains(word2, word1) THEN TRUE
    ELSE IF isNumeric(word1) /\ isNumeric(word2) /\ Len(word1) = Len(word2) THEN TRUE
    ELSE LET commonChars == Cardinality({i \in 1..Len(word1) : ContainsRune(word2, word1[i])})
             similarity  == (commonChars * 100) \div Max(Len(word1), Len(word2))
         IN  similarity >= 70

\* the index of the first remaining token of the second list that the word
\* consumes, 0 when there is none
FirstFit(word, secondCopy, o) ==
    LET hits == {i \in 1..Len(secondCopy) :
                    \/ word = secondCopy[i]
                    \/ o.MatchSimilar /\ isSimilar(word, secondCopy[i])}
    IN  IF hits = {} THEN 0 ELSE CHOOSE i \in hits : \A j \in hits : i <= j

\* the weight one matched word adds
Weight(word, o) == IF o.WeightByLength THEN Len(word) ELSE 1

\* the loop over the first list: the weight matched so far.  matchStep is
\* the body of the loop for the word Head(first), i the index FirstFit found
RECURSIVE matchLoop(_, _, _, _)

\* bug variant: a matched token of the second list is not consumed
matchStepNoConsume(i, first, secondCopy, matchCount, o) ==
    IF i = 0 THEN matchLoop(Tail(first), secondCopy, matchCount, o)
    ELSE matchLoop(Tail(first), secondCopy,
                   matchCount + Weight(Head(first), o), o)

matchStep(i, first, secondCopy, matchCount, o) ==
    IF i = 0 THEN matchLoop(Tail(first), secondCopy, matchCount, o)
    ELSE matchLoop(Tail(first), RemoveAt(secondCopy, i),
                   matchCount + Weight(Head(first), o), o)

matchLoop(first, secondCopy, matchCount, o) ==
    IF first = <<>> THEN matchCount
    ELSE matchStep(FirstFit(Head(first), secondCopy, o),
                   first, secondCopy, matchCount, o)

WordLens(ws) == [i \in 1..Len(ws) |-> Len(ws[i])]

totalCountOf(first, second, o) ==
    IF o.WeightByLength
    THEN SumSeq(WordLens(first)) + SumSeq(WordLens(second))
    ELSE Len(first) + Len(second)

\* bug variant: the percentage is not capped
capPercentageOmitted(percentage) == percentage

capPercentage(percentage) == IF percentage > 100 THEN 100 ELSE percentage

percentageOf(matchCount, totalCount) ==
    IF totalCount > 0
    THEN capPercentage((matchCount * 2 * 100) \div totalCount)
    ELSE 0

compareWords(first, second, o) ==
    IF Len(first) = 0 \/ Len(second) = 0 THEN 0
    ELSE percentageOf(matchLoop(first, second, 0, o),
                      totalCountOf(first, second, o))

----------------------------------------------------------------------------
(* internal/fs/file.go: File *)

Nil == <<>>

NewFileFromFileInfo(path, name, size) ==
    [Path |-> path, Name |-> name, Size |-> size, IsReference |-> FALSE,
     Digest |-> Nil, DigestPart |-> Nil, Words |-> Nil]

\* internal/hash/hash.go.  A directory entry e of the disk has its content in
\* e.size, e.win (the bytes of the window [PartialOffset, PartialOffset +
\* PartialSize)) and e.rest (all other bytes); e.readable is "ok", "nofull"
\* (a read fails beyond the window) or "none" (the file cannot be opened).
\* MD5 is taken as collision-free on the contents drawn.
ChunkSize == 1024 * 1024
MinPartialSize == 3 * ChunkSize

HashFile(path) ==
    LET e == disk[path]
    IN  IF e.readable = "ok"
        THEN [val |-> <<"md5", e.size, e.win, e.rest>>, err |-> FALSE]
        ELSE [val |-> Nil, err |-> TRUE]

HashFilePartial(path) ==
    LET e == disk[path]
    IN  IF e.readable # "none"
        THEN [val |-> <<"md5", e.win>>, err |-> FALSE]
        ELSE [val |-> Nil, err |-> TRUE]

\* bug variant: the digest is computed on every call
GetDigestUncached(f) ==
    LET h == HashFile(f.Path)
    IN  IF h.err THEN [file |-> f, val |-> Nil, err |-> TRUE, computed |-> "none"]
        ELSE [file |-> [f EXCEPT !.Digest = h.val], val |-> h.val, err |-> FALSE,
              computed |-> "full"]

\* File.GetDigest: the record afterwards, the digest returned, the error, and
\* which value the call computed with success ("none" when it was cached or
\* the read failed)
GetDigest(f) ==
    IF f.Digest # Nil
    THEN [file |-> f, val |-> f.Digest, err |-> FALSE, computed |-> "none"]
    ELSE LET h == HashFile(f.Path)
         IN  IF h.err THEN [file |-> f, val |-> Nil, err |-> TRUE, computed |-> "none"]
             ELSE [file |-> [f EXCEPT !.Digest = h.val], val |-> h.val, err |-> FALSE,
                   computed |-> "full"]

\* File.GetPartialDigest
GetPartialDigest(f) ==
    IF f.DigestPart # Nil
    THEN [file |-> f, val |-> f.DigestPart, err |-> FALSE, computed |-> "none"]
    ELSE IF f.Size < MinPartialSize THEN GetDigest(f)
    ELSE LET h == HashFilePartial(f.Path)
         IN  IF h.err THEN [file |-> f, val |-> Nil, err |-> TRUE, computed |-> "none"]
             ELSE [file |-> [f EXCEPT !.DigestPart = h.val], val |-> h.val,
                   err |-> FALSE, computed |-> "part"]

\* File.ExtractWords: the record afterwards and the list returned
ExtractWords(f) ==
    IF f.Words # Nil THEN [file |-> f, val |-> f.Words, computed |-> "none"]
    ELSE LET w == extractWords(f.Name)
         IN  [file |-> [f EXCEPT !.Words = w], val |-> w, computed |-> "words"]

----------------------------------------------------------------------------
(* internal/matcher/matcher.go: Match.  The records live in a sequence fs  *)
(* (a record's index is its pointer); first and second are indices.  Each  *)
(* operator gives the records afterwards and the Match returned.           *)

NewMatch(fs, first, second, pct) ==
    [fs |-> fs, m |-> [First |-> first, Second |-> second, Percentage |-> pct]]

\* a call on the record at index i: the records afterwards, with the
\* record the call left behind in place, and what the call returned
storeDigest(fs, i, r) ==
    [fs |-> [fs EXCEPT ![i] = r.file], val |-> r.val, err |-> r.err]

digestAt(fs, i) == storeDigest(fs, i, GetDigest(fs[i]))

partialDigestAt(fs, i) == storeDigest(fs, i, GetPartialDigest(fs[i]))

storeWords(fs, i, r) == [fs |-> [fs EXCEPT ![i] = r.file], val |-> r.val]

wordsAt(fs, i) == storeWords(fs, i, ExtractWords(fs[i]))

\* the partial-digest stage of matchExact: ok iff the comparison goes on.
\* d1 and d2 are the calls on the first and on the second record.
\* bug variant: differing partial digests do not end the comparison
partialCompareIgnoringMismatch(d1, d2) ==
    IF d2.err THEN [fs |-> d2.fs, ok |-> FALSE]
    ELSE [fs |-> d2.fs, ok |-> TRUE]

partialCompare(d1, d2) ==
    IF d2.err THEN [fs |-> d2.fs, ok |-> FALSE]
    ELSE [fs |-> d2.fs, ok |-> d1.val = d2.val]

partialSecond(d1, second) ==
    IF d1.err THEN [fs |-> d1.fs, ok |-> FALSE]
    ELSE partialCompare(d1, partialDigestAt(d1.fs, second))

partialStage(fs, first, second) ==
    IF fs[first].Size >= MinPartialSize
    THEN partialSecond(partialDigestAt(fs, first), second)
    ELSE [fs |-> fs, ok |-> TRUE]

\* the full-digest stage of matchExact
fullCompare(d1, d2, first, second) ==
    IF d2.err THEN NewMatch(d2.fs, first, second, 0)
    ELSE IF d1.val = d2.val
         THEN NewMatch(d2.fs, first, second, 100)
         ELSE NewMatch(d2.fs, first, second, 0)

fullSecond(d1, first, second) ==
    IF d1.err THEN NewMatch(d1.fs, first, second, 0)
    ELSE fullCompare(d1, digestAt(d1.fs, second), first, second)

\* bug variant: records of 3 MiB or more are declared identical as soon as
\* their partial digests agree
fullStagePartialOnly(p, first, second) ==
    IF ~p.ok THEN NewMatch(p.fs, first, second, 0)
    ELSE IF p.fs[first].Size >= MinPartialSize
         THEN NewMatch(p.fs, first, second, 100)
         ELSE fullSecond(digestAt(p.fs, first), first, second)

fullStage(p, first, second) ==
    IF ~p.ok THEN NewMatch(p.fs, first, second, 0)
    ELSE fullSecond(digestAt(p.fs, first), first, second)

\* bug variant: the digests are computed before the sizes are compared
matchExactDigestFirst(fs, first, second) ==
    IF fs[first].Size # fs[second].Size
    THEN NewMatch(digestAt(digestAt(fs, first).fs, second).fs, first, second, 0)
    ELSE fullStage(partialStage(fs, first, second), first, second)

matchExact(fs, first, second) ==
    IF fs[first].Size # fs[second].Size THEN NewMatch(fs, first, second, 0)
    ELSE fullStage(partialStage(fs, first, second), first, second)

\* matchFuzzy: w1 and w2 are the word lists of the first and second record
fuzzyScore(w1, w2, first, second, o) ==
    NewMatch(w2.fs, first, second, compareWords(w1.val, w2.val, o))

fuzzySecond(w1, first, second, o) ==
    fuzzyScore(w1, wordsAt(w1.fs, second), first, second, o)

matchFuzzy(fs, first, second, o) ==
    fuzzySecond(wordsAt(fs, first), first, second, o)

Match(fs, first, second, o) ==
    IF o.Type = "exact" THEN matchExact(fs, first, second)
    ELSE matchFuzzy(fs, first, second, o)

----------------------------------------------------------------------------
(* The filename scorer on its own: calls of File.ExtractWords,             *)
(* Matcher.matchFuzzy and Matcher.compareWords on bounded inputs.          *)

Names == StringsUpTo(NameAlphabet, MaxNameLen) \ {<<>>, <<".">>, <<".", ".">>}
OtherNames == StringsUpTo(NameAlphabet, MaxOtherLen) \ {<<>>, <<".">>, <<".", ".">>}
Words == StringsUpTo(WordAlphabet, MaxListChars)
WordLists ==
    {ws \in UNION {[1..k -> Words] : k \in 0..MaxWords} :
        SumSeq(WordLens(ws)) <= MaxListChars}

\* engine.NewEngine: no group yet, in an array of its own; the mutex is free
\* and no call is in flight
NoCalls ==
    [runner |-> [pc |-> "idle", run |-> 0, buckets |-> <<>>,
                 before |-> [gs |-> <<>>, recs |-> <<>>]],
     reader |-> [pc |-> "idle", kind |-> "none", predicate |-> "any",
                 arr |-> 0, n |-> 0, list |-> <<>>]]

NewEngine ==
    /\ groupFiles = <<>>
    /\ mu = "free"
    /\ calls = NoCalls
    /\ arrays = << <<>> >>
    /\ returned = {}

ScorerOptions ==
    [Type : {"fuzzy"}, MinMatchPercent : {80},
     WeightByLength : BOOLEAN, MatchSimilar : BOOLEAN]

IdleEngine ==
    /\ disk = <<>>
    /\ Directories = <<>>
    /\ RefDirs = {}
    /\ files = <<>>
    /\ filesBySize = <<>>
    /\ groups = <<>>
    /\ accumulated = <<>>
    /\ ret = [op |-> "none"]
    /\ NewEngine

\* the arguments of the call to come: two file names (the second the same
\* name or a short other one), or two token lists
InitWords ==
    /\ IdleEngine
    /\ Options \in ScorerOptions
    /\ \/ \E name1 \in Names : \E name2 \in {name1} \cup OtherNames :
            wcall = [kind |-> "names", a |-> name1, b |-> name2, op |-> "none",
                     words |-> <<>>, fwd |-> 0, bwd |-> 0]
       \/ \E w1, w2 \in WordLists :
            wcall = [kind |-> "lists", a |-> w1, b |-> w2, op |-> "none",
                     words |-> <<>>, fwd |-> 0, bwd |-> 0]

\* f.ExtractWords() on a fresh record named wcall.a
ExtractWordsCall ==
    /\ wcall.kind = "names" /\ wcall.op = "none"
    /\ LET r == ExtractWords(NewFileFromFileInfo(1, wcall.a, 1))
       IN  wcall' = [wcall EXCEPT !.op = "ExtractWords", !.words = r.val]
    /\ UNCHANGED engineVars

\* m.Match(first, second) in fuzzy mode on fresh records named wcall.a, wcall.b
MatchFuzzyCall ==
    /\ wcall.kind = "names" /\ wcall.op = "none"
    /\ LET r == Match(<<NewFileFromFileInfo(1, wcall.a, 1),
                         NewFileFromFileInfo(2, wcall.b, 1)>>, 1, 2, Options)
       IN  wcall' = [wcall EXCEPT !.op = "matchFuzzy", !.words = r.fs[1].Words,
                                  !.fwd = r.m.Percentage]
    /\ UNCHANGED engineVars

\* m.compareWords(a, b) and m.compareWords(b, a)
CompareWordsCall ==
    /\ wcall.kind = "lists" /\ wcall.op = "none"
    /\ wcall' = [wcall EXCEPT !.op = "compareWords",
                              !.fwd = compareWords(wcall.a, wcall.b, Options),
                              !.bwd = compareWords(wcall.b, wcall.a, Options)]
    /\ UNCHANGED engineVars

NextWords ==
    \/ ExtractWordsCall
    \/ MatchFuzzyCall
    \/ CompareWordsCall

SpecWords == InitWords /\ [][NextWords]_vars

----------------------------------------------------------------------------
(* The disk: what the scanned directories hold *)

\* file contents: two just below the partial-digest threshold, three at it
\* (two share the window and differ elsewhere, one differs in the window)
Contents ==
    {[size |-> MinPartialSize - 1, win |-> 0, rest |-> 0],
     [size |-> MinPartialSize - 1, win |-> 0, rest |-> 1],
     [size |-> MinPartialSize, win |-> 0, rest |-> 0],
     [size |-> MinPartialSize, win |-> 0, rest |-> 1],
     [size |-> MinPartialSize, win |-> 1, rest |-> 0]}

Entry(dir, name, c, readable) ==
    [dir |-> dir, name |-> name, size |-> c.size, win |-> c.win, rest |-> c.rest,
     readable |-> readable]

SameContent(e1, e2) == e1.size = e2.size /\ e1.win = e2.win /\ e1.rest = e2.rest

ExactOptions ==
    [Type |-> "exact", MinMatchPercent |-> 80, WeightByLength |-> TRUE,
     MatchSimilar |-> TRUE]

\* the records a directory walk creates for the entries of a disk
FreshRecords(d) == [i \in 1..Len(d) |-> NewFileFromFileInfo(i, d[i].name, d[i].size)]

----------------------------------------------------------------------------
(* internal/fs (Directory) and internal/scanner/scanner.go *)

\* what os.Stat and the directory walk find at a configured path
DirStatus(path) ==
    CASE path = "nodir"  -> "missing"
      [] path = "afile"  -> "notdir"
      [] path = "denied" -> "walkerror"
      [] OTHER           -> "ok"

\* fs.NewDirectory: the error case
NewDirectoryFails(path) == DirStatus(path) \in {"missing", "notdir"}

\* Directory.ScanFiles: the error case, and the records of a walk that succeeds
ScanFilesFails(path) == DirStatus(path) = "walkerror"

ScanFiles(path, isReference) ==
    LET paths == SelectSeq([i \in 1..Len(disk) |-> i], LAMBDA i : disk[i].dir = path)
    IN  [k \in 1..Len(paths) |->
            [NewFileFromFileInfo(paths[k], disk[paths[k]].name, disk[paths[k]].size)
                EXCEPT !.IsReference = isReference]]

\* bug variant: every record is filed under the size of the first record
groupBySizeOneBucket(fs) ==
    IF fs = <<>> THEN <<>>
    ELSE [sz \in {fs[1].Size} |-> [i \in 1..Len(fs) |-> i]]

\* Scanner.filesBySize for the records fs: each size to the indices of the
\* records of that size, in the order they were appended
groupBySize(fs) ==
    [sz \in {fs[i].Size : i \in 1..Len(fs)} |->
        SelectSeq([i \in 1..Len(fs) |-> i], LAMBDA i : fs[i].Size = sz)]

\* bug variant: a directory that cannot be scanned is skipped
RECURSIVE scanLoopSkipping(_, _)
scanLoopSkipping(dirs, fs) ==
    IF dirs = <<>> THEN [files |-> fs, err |-> FALSE]
    ELSE IF NewDirectoryFails(Head(dirs)) \/ ScanFilesFails(Head(dirs))
         THEN scanLoopSkipping(Tail(dirs), fs)
         ELSE scanLoopSkipping(Tail(dirs),
                               fs \o ScanFiles(Head(dirs), Head(dirs) \in RefDirs))

\* the loop of Scanner.Scan over the configured directories
RECURSIVE scanLoop(_, _)
scanLoop(dirs, fs) ==
    IF dirs = <<>> THEN [files |-> fs, err |-> FALSE]
    ELSE IF NewDirectoryFails(Head(dirs)) THEN [files |-> fs, err |-> TRUE]
    ELSE IF ScanFilesFails(Head(dirs)) THEN [files |-> fs, err |-> TRUE]
    ELSE scanLoop(Tail(dirs), fs \o ScanFiles(Head(dirs), Head(dirs) \in RefDirs))

\* Scanner.Scan: the new files, filesBySize and the error
Scan ==
    LET r == scanLoop(Directories, <<>>)
    IN  [files |-> r.files, filesBySize |-> groupBySize(r.files), err |-> r.err]

Perms(S) ==
    {p \in [1..Cardinality(S) -> S] : \A i, j \in 1..Cardinality(S) : i # j => p[i] # p[j]}

\* the orders in which a range over a Go map can visit the entries s
PermsOfSeq(s) == {[i \in 1..Len(s) |-> s[p[i]]] : p \in Perms(1..Len(s))}

\* bug variant: the range loop returns after the first bucket it meets
GetPotentialDuplicatesFirstOnly(bySize) ==
    LET sizes == {sz \in DOMAIN bySize : Len(bySize[sz]) > 1}
    IN  IF sizes = {} THEN {<<>>} ELSE {<<bySize[sz]>> : sz \in sizes}

\* Scanner.GetPotentialDuplicates: the buckets of two or more records, in any
\* of the orders the range over the map may produce
GetPotentialDuplicates(bySize) ==
    LET sizes == {sz \in DOMAIN bySize : Len(bySize[sz]) > 1}
    IN  {[i \in 1..Len(p) |-> bySize[p[i]]] : p \in Perms(sizes)}

----------------------------------------------------------------------------
(* internal/engine/engine.go *)

\* Engine.createDuplicateGroup: the records afterwards and the group.
\* appendMatch is the body of its loop, r the result of the call to Match.
RECURSIVE createMatches(_, _, _, _, _)
appendMatch(r, reference, duplicates, matches, o) ==
    createMatches(r.fs, reference, Tail(duplicates), Append(matches, r.m), o)

createMatches(fs, reference, duplicates, matches, o) ==
    IF duplicates = <<>> THEN [fs |-> fs, matches |-> matches]
    ELSE appendMatch(Match(fs, reference, Head(duplicates), o),
                     reference, duplicates, matches, o)

\* bug variant: the last record of the list is taken as the reference
newGroupLastAsReference(r, ids) ==
    [fs |-> r.fs,
     group |-> [Reference |-> ids[Len(ids)],
                Duplicates |-> SubSeq(ids, 1, Len(ids) - 1),
                Matches |-> r.matches]]

newGroup(r, ids) ==
    [fs |-> r.fs,
     group |-> [Reference |-> Head(ids), Duplicates |-> Tail(ids),
                Matches |-> r.matches]]

createDuplicateGroup(fs, ids, o) ==
    newGroup(createMatches(fs, Head(ids), Tail(ids), <<>>, o), ids)

\* the keys of a keyed list in order of first appearance
RECURSIVE KeysInOrder(_, _)
KeysInOrder(keyed, seen) ==
    IF keyed = <<>> THEN <<>>
    ELSE IF Head(keyed).key \in seen THEN KeysInOrder(Tail(keyed), seen)
    ELSE <<Head(keyed).key>> \o KeysInOrder(Tail(keyed), seen \cup {Head(keyed).key})

\* the map a hashing loop builds: per key the records in append order; the
\* entries are listed by first appearance of their key
hashGroups(keyed) ==
    LET keys == KeysInOrder(keyed, {})
    IN  [k \in 1..Len(keys) |->
            LET mine == SelectSeq(keyed, LAMBDA x : x.key = keys[k])
            IN  [i \in 1..Len(mine) |-> mine[i].id]]

\* a hashing loop of processExactMatches over the records ids: the partial
\* digest (first loop, records of 3 MiB or more) or the full digest of each;
\* a record whose digest fails is left out.  hashNext is the body of the
\* loop after the digest call d on the record Head(ids).
RECURSIVE hashLoop(_, _, _, _)

\* bug variant: the error of the digest call is ignored, so an unreadable
\* file is filed under the key of the nil digest
hashNextIgnoringErr(d, ids, partial, keyed) ==
    hashLoop(d.fs, Tail(ids), partial, Append(keyed, [key |-> d.val, id |-> Head(ids)]))

hashNext(d, ids, partial, keyed) ==
    IF d.err THEN hashLoop(d.fs, Tail(ids), partial, keyed)
    ELSE hashLoop(d.fs, Tail(ids), partial,
                  Append(keyed, [key |-> d.val, id |-> Head(ids)]))

hashLoop(fs, ids, partial, keyed) ==
    IF ids = <<>> THEN [fs |-> fs, keyed |-> keyed]
    ELSE hashNext(IF partial /\ fs[Head(ids)].Size >= MinPartialSize
                  THEN partialDigestAt(fs, Head(ids))
                  ELSE digestAt(fs, Head(ids)),
                  ids, partial, keyed)

\* createDuplicateGroup for each of the lists that has two or more records
RECURSIVE createGroups(_, _, _, _)
appendGroup(r, lists, gs, o) ==
    createGroups(r.fs, Tail(lists), Append(gs, r.group), o)

createGroups(fs, lists, gs, o) ==
    IF lists = <<>> THEN [fs |-> fs, groups |-> gs]
    ELSE IF Len(Head(lists)) < 2 THEN createGroups(fs, Tail(lists), gs, o)
    ELSE appendGroup(createDuplicateGroup(fs, Head(lists), o), lists, gs, o)

\* the result of a hashing loop as the lists of records per digest
listsOf(h) == [fs |-> h.fs, lists |-> hashGroups(h.keyed)]

\* bug variant: the records that share a partial digest are taken as
\* duplicates without the partition by full digest
fullHashListsPartialOnly(fs, hashGroup) == [fs |-> fs, lists |-> <<hashGroup>>]

\* the lists in which one hash group is searched for duplicates: the records
\* per full digest for records of 3 MiB or more, else the hash group itself
fullHashLists(fs, hashGroup) ==
    IF fs[hashGroup[1]].Size >= MinPartialSize
    THEN listsOf(hashLoop(fs, hashGroup, FALSE, <<>>))
    ELSE [fs |-> fs, lists |-> <<hashGroup>>]

createGroupsOf(x, o) == createGroups(x.fs, x.lists, <<>>, o)

\* the body of the loop over filesByHash for one hash group: the groups it
\* appends, listed by first appearance of their full digest
processHashGroup(fs, hashGroup, o) ==
    IF Len(hashGroup) < 2 THEN [fs |-> fs, groups |-> <<>>]
    ELSE createGroupsOf(fullHashLists(fs, hashGroup), o)

RECURSIVE processHashGroups(_, _, _, _)
appendUnit(r, lists, units, o) ==
    processHashGroups(r.fs, Tail(lists), Append(units, r.groups), o)

processHashGroups(fs, lists, units, o) ==
    IF lists = <<>> THEN [fs |-> fs, units |-> units]
    ELSE appendUnit(processHashGroup(fs, Head(lists), o), lists, units, o)

processHashGroupsOf(x, o) == processHashGroups(x.fs, x.lists, <<>>, o)

\* all concatenations that take one sequence from each set, in order
RECURSIVE ConcatChoices(_)
ConcatChoices(sets) ==
    IF sets = <<>> THEN {<<>>}
    ELSE {x \o y : x \in Head(sets), y \in ConcatChoices(Tail(sets))}

\* the sequences of groups the loops over filesByHash and filesByFullHash
\* may append: both ranges visit their entries in any order
exactOrders(r) ==
    [fs |-> r.fs,
     orders |-> UNION {ConcatChoices([i \in 1..Len(u) |-> PermsOfSeq(u[i])]) :
                          u \in PermsOfSeq(r.units)}]

\* Engine.processExactMatches on one bucket: the records afterwards and the
\* sequences of groups it may append
processExactMatches(fs, bucket, o) ==
    exactOrders(processHashGroupsOf(listsOf(hashLoop(fs, bucket, TRUE, <<>>)), o))

\* the inner loop of processFuzzyMatches for the candidate reference file;
\* fuzzyInnerNext is its body after the call r to Match
RECURSIVE fuzzyInner(_, _, _, _, _, _, _)

\* bug variant: the match is recorded also when it is below the threshold
fuzzyInnerNextKeepingMatch(r, file, others, processed, matches, duplicates, o) ==
    IF r.m.Percentage >= o.MinMatchPercent
    THEN fuzzyInner(r.fs, file, Tail(others), processed \cup {Head(others)},
                    Append(matches, r.m), Append(duplicates, Head(others)), o)
    ELSE fuzzyInner(r.fs, file, Tail(others), processed, Append(matches, r.m),
                    duplicates, o)

\* bug variant: every record compared is claimed, whatever its score
fuzzyInnerNextClaimingAll(r, file, others, processed, matches, duplicates, o) ==
    fuzzyInner(r.fs, file, Tail(others), processed \cup {Head(others)},
               Append(matches, r.m), Append(duplicates, Head(others)), o)

fuzzyInnerNext(r, file, others, processed, matches, duplicates, o) ==
    IF r.m.Percentage >= o.MinMatchPercent
    THEN fuzzyInner(r.fs, file, Tail(others), processed \cup {Head(others)},
                    Append(matches, r.m), Append(duplicates, Head(others)), o)
    ELSE fuzzyInner(r.fs, file, Tail(others), processed, matches, duplicates, o)

fuzzyInner(fs, file, others, processed, matches, duplicates, o) ==
    IF others = <<>>
    THEN [fs |-> fs, processed |-> processed, matches |-> matches,
          duplicates |-> duplicates]
    ELSE IF file = Head(others) \/ Head(others) \in processed
    THEN fuzzyInner(fs, file, Tail(others), processed, matches, duplicates, o)
    ELSE fuzzyInnerNext(Match(fs, file, Head(others), o),
                        file, others, processed, matches, duplicates, o)

\* the outer loop of processFuzzyMatches over the records still to visit;
\* fuzzyOuterNext is its body after the inner loop r
RECURSIVE fuzzyOuter(_, _, _, _, _, _)
\* bug variant: the records claimed so far are forgotten after each
\* candidate reference
fuzzyOuterNextForgetting(r, bucket, todo, gs, o) ==
    IF Len(r.duplicates) > 0
    THEN fuzzyOuter(r.fs, bucket, Tail(todo), {},
                    Append(gs, [Reference |-> Head(todo),
                                Duplicates |-> r.duplicates,
                                Matches |-> r.matches]), o)
    ELSE fuzzyOuter(r.fs, bucket, Tail(todo), {}, gs, o)

fuzzyOuterNext(r, bucket, todo, gs, o) ==
    IF Len(r.duplicates) > 0
    THEN fuzzyOuter(r.fs, bucket, Tail(todo), r.processed \cup {Head(todo)},
                    Append(gs, [Reference |-> Head(todo),
                                Duplicates |-> r.duplicates,
                                Matches |-> r.matches]), o)
    ELSE fuzzyOuter(r.fs, bucket, Tail(todo), r.processed, gs, o)

fuzzyOuter(fs, bucket, todo, processed, gs, o) ==
    IF todo = <<>> THEN [fs |-> fs, groups |-> gs]
    ELSE IF Head(todo) \in processed
    THEN fuzzyOuter(fs, bucket, Tail(todo), processed, gs, o)
    ELSE fuzzyOuterNext(fuzzyInner(fs, Head(todo), bucket, processed, <<>>, <<>>, o),
                        bucket, todo, gs, o)

fuzzyOrders(r) == [fs |-> r.fs, orders |-> {r.groups}]

\* Engine.processFuzzyMatches on one bucket
processFuzzyMatches(fs, bucket, o) ==
    fuzzyOrders(fuzzyOuter(fs, bucket, bucket, {}, <<>>, o))

\* Engine.processFileGroup
processFileGroup(fs, bucket, o) ==
    IF Len(bucket) < 2 THEN [fs |-> fs, orders |-> {<<>>}]
    ELSE IF o.Type = "exact" THEN processExactMatches(fs, bucket, o)
    ELSE processFuzzyMatches(fs, bucket, o)

\* the loop of FindDuplicates over the buckets: the records afterwards and
\* the group lists it may have accumulated.  appendOrders appends what the
\* buckets still to come give (rest) to what one bucket gave (orders).
RECURSIVE processBuckets(_, _, _)
appendOrders(orders, rest) ==
    [fs |-> rest.fs, orders |-> {x \o y : x \in orders, y \in rest.orders}]

processRest(r, buckets, o) ==
    appendOrders(r.orders, processBuckets(r.fs, Tail(buckets), o))

processBuckets(fs, buckets, o) ==
    IF buckets = <<>> THEN [fs |-> fs, orders |-> {<<>>}]
    ELSE processRest(processFileGroup(fs, Head(buckets), o), buckets, o)

Descending(gs) ==
    \A i \in 1..(Len(gs) - 1) : Len(gs[i].Duplicates) >= Len(gs[i + 1].Duplicates)

\* bug variant: the list is returned as accumulated
SortSliceOmitted(gs) == {gs}

\* bug variant: the comparison is reversed
SortSliceAscending(gs) ==
    {q \in PermsOfSeq(gs) :
        \A i \in 1..(Len(q) - 1) : Len(q[i].Duplicates) <= Len(q[i + 1].Duplicates)}

\* sort.Slice by descending number of duplicates: any ordering of the groups
\* that the comparison accepts (sort.Slice does not promise a stable sort)
SortSlice(gs) == {q \in PermsOfSeq(gs) : Descending(q)}

\* Engine.FindDuplicates.  sortAndReturn is its end, run the outcome of the
\* loop over the buckets; afterScan is what follows the scan sc.
sortAndReturn(run) ==
    \E acc \in run.orders : \E sorted \in SortSlice(acc) :
        /\ files' = run.fs
        /\ groupFiles' = run.fs
        /\ accumulated' = acc
        /\ groups' = sorted
        /\ ret' = [op |-> "FindDuplicates", groups |-> sorted,
                   isNil |-> FALSE, err |-> FALSE]

afterScan(sc) ==
    /\ filesBySize' = sc.filesBySize
    /\ IF sc.err
       THEN /\ files' = sc.files
            /\ ret' = [op |-> "FindDuplicates", groups |-> Nil, isNil |-> TRUE,
                       err |-> TRUE]
            /\ UNCHANGED <<groups, accumulated, groupFiles>>
       ELSE \E buckets \in GetPotentialDuplicates(sc.filesBySize) :
                sortAndReturn(processBuckets(sc.files, buckets, Options))

FindDuplicates ==
    /\ afterScan(Scan)
    /\ UNCHANGED <<disk, Directories, RefDirs, Options, wcall, concVars>>

\* Scanner.SetReferenceDir
SetReferenceDir(dir) ==
    /\ RefDirs' = RefDirs \cup {dir}
    /\ UNCHANGED <<disk, Directories, Options, files, filesBySize, groups,
                   accumulated, ret, wcall, groupFiles, concVars>>

----------------------------------------------------------------------------
(* The engine: a scanner and a matcher are configured, the disk holds      *)
(* MaxFiles files in the directories d1 and d2, and FindDuplicates and     *)
(* SetReferenceDir are called in any order.                                *)

\* what exact mode can tell apart: the contents, and files that cannot be read
ExactKinds ==
    {Entry("d1", <<"a">>, c, "ok") : c \in Contents}
    \cup {Entry("d1", <<"a">>, [size |-> MinPartialSize - 1, win |-> 0, rest |-> 0], "none"),
          Entry("d1", <<"a">>, [size |-> MinPartialSize, win |-> 0, rest |-> 0], "nofull"),
          Entry("d1", <<"a">>, [size |-> MinPartialSize, win |-> 0, rest |-> 0], "none")}

\* what fuzzy mode can tell apart: the names and the sizes
FuzzyNames ==
    {<<"a", "b", "-", "1", "2", ".", "a">>,
     <<"a", "b", "_", "1", "3", ".", "a">>,
     <<"a", "b", ".", "a">>}

FuzzyKinds ==
    {Entry("d1", n, [size |-> sz, win |-> 0, rest |-> 0], "ok") :
        n \in FuzzyNames, sz \in {MinPartialSize - 1, MinPartialSize}}

\* the disks of MaxFiles files of the given kinds: d1 holds the first two
\* files and d2 the others
Disks(kinds) ==
    {[i \in 1..MaxFiles |-> [sel[i] EXCEPT !.dir = IF i <= 2 THEN "d1" ELSE "d2"]] :
        sel \in [1..MaxFiles -> kinds]}

DirLists ==
    {<<"d1", "d2">>, <<"d2", "d1">>, <<"d1", "d1", "d2">>,
     <<"d1", "nodir">>, <<"d1", "afile">>, <<"d1", "denied">>}

FuzzyOptions ==
    [Type |-> "fuzzy", MinMatchPercent |-> 80, WeightByLength |-> TRUE,
     MatchSimilar |-> TRUE]

Init ==
    /\ \/ Options = ExactOptions /\ disk \in Disks(ExactKinds)
       \/ Options = FuzzyOptions /\ disk \in Disks(FuzzyKinds)
    /\ Directories \in DirLists
    /\ RefDirs = {}
    /\ files = <<>>
    /\ filesBySize = <<>>
    /\ groups = <<>>
    /\ accumulated = <<>>
    /\ ret = [op |-> "none"]
    /\ NewEngine
    /\ wcall = [kind |-> "none", op |-> "none"]

Next ==
    \/ FindDuplicates
    \/ \E dir \in {"d2"} : SetReferenceDir(dir)

Spec == Init /\ [][Next]_vars

----------------------------------------------------------------------------
(* Properties of the engine (Spec) *)

Succeeded == ret.op = "FindDuplicates" /\ ~ret.err

Members(g) == {g.Reference} \cup Range(g.Duplicates)

DupCount(g) == Len(g.Duplicates)

Readable(i) == disk[files[i].Path].readable = "ok"

\* C5: a record whose reference flag is set is never in the Duplicates list
\* of a returned group, in exact and in fuzzy mode.
C5_ReferenceNeverDuplicate ==
    Succeeded =>
        \A k \in 1..Len(ret.groups) : \A d \in Range(ret.groups[k].Duplicates) :
            ~files[d].IsReference

\* the next scan creates the same records with the same reference flags
SameScan ==
    /\ Len(files') = Len(files)
    /\ \A i \in 1..Len(files) :
          /\ files'[i].Path = files[i].Path
          /\ files'[i].IsReference = files[i].IsReference

\* C6 (as stated): two runs of FindDuplicates over the same input return the
\* same groups in the same order.
C6_SameGroupsSameOrder ==
    [][(Succeeded /\ Succeeded' /\ SameScan) => ret'.groups = ret.groups]_vars

\* C6 (amended): two runs of FindDuplicates over the same input return the
\* same set of groups and the same sequence of duplicate counts; only groups
\* with equal duplicate counts may change places.
C6_SameGroupsUpToTies ==
    [][(Succeeded /\ Succeeded' /\ SameScan) =>
          /\ Range(ret'.groups) = Range(ret.groups)
          /\ Len(ret'.groups) = Len(ret.groups)
          /\ \A k \in 1..Len(ret.groups) :
                DupCount(ret'.groups[k]) = DupCount(ret.groups[k])]_vars

\* a run has returned groups from two size buckets with equal duplicate counts
C6_Witness ==
    /\ Succeeded
    /\ \E k, l \in 1..Len(ret.groups) :
          /\ k # l
          /\ DupCount(ret.groups[k]) = DupCount(ret.groups[l])
          /\ files[ret.groups[k].Reference].Size # files[ret.groups[l].Reference].Size

\* C7: the list a successful FindDuplicates returns is ordered by
\* non-increasing duplicate count.
C7_SortedByCount ==
    Succeeded =>
        \A k \in 1..Len(ret.groups) : \A l \in 1..Len(ret.groups) :
            l = k + 1 => Len(ret.groups[k].Duplicates) >= Len(ret.groups[l].Duplicates)

\* groups with different counts were accumulated smaller first and returned
\* larger first
C7_Witness ==
    /\ Succeeded
    /\ Len(accumulated) >= 2
    /\ DupCount(accumulated[1]) < DupCount(accumulated[2])
    /\ DupCount(ret.groups[1]) > DupCount(ret.groups[Len(ret.groups)])

PositionIn(gs, g) == CHOOSE k \in 1..Len(gs) : gs[k] = g

\* C8 (as stated): the final sort is stable: groups with the same number of
\* duplicates are returned in the relative order in which they were
\* accumulated.
C8_StableForTies ==
    Succeeded =>
        \A k, l \in 1..Len(ret.groups) :
            (k < l /\ DupCount(ret.groups[k]) = DupCount(ret.groups[l]))
            => PositionIn(accumulated, ret.groups[k]) < PositionIn(accumulated, ret.groups[l])

\* C8 (amended): the final sort returns every accumulated group exactly once
\* and places a group with more duplicates before one with fewer; the
\* relative order of groups with the same number of duplicates is not fixed.
C8_PermutationOrderedByCount ==
    Succeeded =>
        /\ Len(ret.groups) = Len(accumulated)
        /\ Range(ret.groups) = Range(accumulated)
        /\ \A k, l \in 1..Len(ret.groups) :
              DupCount(ret.groups[k]) > DupCount(ret.groups[l]) => k < l

\* two groups with the same count were accumulated in one order and returned
\* in the other
C8_Witness ==
    /\ Succeeded
    /\ Len(ret.groups) = 2
    /\ DupCount(ret.groups[1]) = DupCount(ret.groups[2])
    /\ ret.groups = <<accumulated[2], accumulated[1]>>

\* C9: when scanning any configured directory fails, FindDuplicates returns
\* an error and no group list, also when earlier directories were scanned and
\* hold duplicates.
C9_ScanFailureIsFatal ==
    (/\ ret.op = "FindDuplicates"
     /\ \E k \in 1..Len(Directories) : DirStatus(Directories[k]) # "ok")
    => (ret.err /\ ret.isNil /\ ret.groups = Nil)

\* the second directory failed after the first one gave two readable files
\* of identical content
C9_Witness ==
    /\ ret.op = "FindDuplicates" /\ ret.err
    /\ DirStatus(Directories[1]) = "ok"
    /\ \E i, j \in 1..Len(files) :
          /\ i # j /\ Readable(i) /\ Readable(j)
          /\ SameContent(disk[files[i].Path], disk[files[j].Path])

\* C10: in exact mode a file whose digest cannot be read does not abort
\* FindDuplicates, is in no returned group, and the readable files of
\* identical content are still grouped together.
C10_UnreadableFilesAreSkipped ==
    (ret.op = "FindDuplicates" /\ Options.Type = "exact")
    => /\ (\A k \in 1..Len(Directories) : DirStatus(Directories[k]) = "ok") => ~ret.err
       /\ ~ret.err =>
             /\ \A k \in 1..Len(ret.groups) : \A i \in Members(ret.groups[k]) :
                   Readable(i)
             /\ \A i, j \in 1..Len(files) :
                   (/\ i # j /\ Readable(i) /\ Readable(j)
                    /\ SameContent(disk[files[i].Path], disk[files[j].Path]))
                   => \E k \in 1..Len(ret.groups) :
                          {i, j} \subseteq Members(ret.groups[k])

\* a bucket held a file whose digest failed and two readable files of
\* identical content, and these two were returned as a group
C10_Witness ==
    /\ Succeeded /\ Options.Type = "exact"
    /\ \E u \in 1..Len(files) : \E k \in 1..Len(ret.groups) :
          /\ ~Readable(u)
          /\ files[u].Size = files[ret.groups[k].Reference].Size
          /\ disk[files[u].Path].win = disk[files[ret.groups[k].Reference].Path].win
          /\ u \notin Members(ret.groups[k])

\* C11: every returned group, in exact and in fuzzy mode, holds records of
\* one size: the Reference and every Duplicate have equal Size.
C11_GroupsOfOneSize ==
    Succeeded =>
        \A k \in 1..Len(ret.groups) : \A d \in Range(ret.groups[k].Duplicates) :
            files[d].Size = files[ret.groups[k].Reference].Size

\* a group was returned although the scan also found a record of another
\* size that the matcher would have scored 100 against the group's reference
C11_Witness ==
    /\ Succeeded
    /\ \E k \in 1..Len(ret.groups) : \E i \in 1..Len(files) :
          /\ files[i].Size # files[ret.groups[k].Reference].Size
          /\ Options.Type = "fuzzy"
          /\ files[i].Name = files[ret.groups[k].Reference].Name

\* a group's Matches are as many as its Duplicates, and the i-th match
\* compares the Reference with the i-th duplicate
Aligned(g) ==
    /\ Len(g.Duplicates) = Len(g.Matches)
    /\ \A i \in 1..Len(g.Matches) :
          /\ g.Matches[i].First = g.Reference
          /\ g.Matches[i].Second = g.Duplicates[i]

\* C12: every DuplicateGroup the engine builds has len(Duplicates) =
\* len(Matches), Matches[i].First the Reference and Matches[i].Second
\* Duplicates[i].
C12_MatchesAligned ==
    /\ \A k \in 1..Len(groups) : Aligned(groups[k])
    /\ \A k \in 1..Len(accumulated) : Aligned(accumulated[k])

\* a fuzzy-mode group was built from a bucket in which another record was
\* compared with the reference and rejected
C12_Witness ==
    /\ Succeeded /\ Options.Type = "fuzzy"
    /\ \E k \in 1..Len(groups) : \E i \in 1..Len(files) :
          /\ files[i].Size = files[groups[k].Reference].Size
          /\ i \notin Members(groups[k])
          /\ Len(groups[k].Matches) >= 1

\* every record of the size bucket of record i can be read
BucketReadable(i) ==
    \A j \in 1..Len(files) : files[j].Size = files[i].Size => Readable(j)

InSameGroup(i, j) ==
    \E k \in 1..Len(ret.groups) : {i, j} \subseteq Members(ret.groups[k])

\* C15: in exact mode, in a size bucket whose files are all readable, two
\* records are in the same group iff their contents (hence full digests)
\* are equal, and a record whose content is unique in the bucket is in no
\* group.
C15_GroupsAreContentClasses ==
    (Succeeded /\ Options.Type = "exact") =>
        \A i \in 1..Len(files) :
            BucketReadable(i) =>
                /\ \A j \in 1..Len(files) :
                      (j # i /\ files[j].Size = files[i].Size) =>
                          (InSameGroup(i, j) <=>
                              SameContent(disk[files[i].Path], disk[files[j].Path]))
                /\ (\A j \in 1..Len(files) :
                        (j # i /\ files[j].Size = files[i].Size) =>
                            ~SameContent(disk[files[i].Path], disk[files[j].Path]))
                   => \A k \in 1..Len(ret.groups) : i \notin Members(ret.groups[k])

\* a bucket of readable files of 3 MiB or more held two files of identical
\* content and a third that agrees with them in the window of the partial
\* digest only: the two are a group and the third is in none
C15_Witness ==
    /\ Succeeded /\ Options.Type = "exact"
    /\ \E i, j, u \in 1..Len(files) :
          /\ i # j /\ BucketReadable(i)
          /\ files[i].Size >= MinPartialSize
          /\ files[j].Size = files[i].Size /\ files[u].Size = files[i].Size
          /\ SameContent(disk[files[i].Path], disk[files[j].Path])
          /\ disk[files[u].Path].win = disk[files[i].Path].win
          /\ disk[files[u].Path].rest # disk[files[i].Path].rest
          /\ InSameGroup(i, j)
          /\ \A k \in 1..Len(ret.groups) : u \notin Members(ret.groups[k])

\* C16: in exact mode a group's Reference is the member that comes first in
\* the bucket's encounter order (the order of the records in files), its
\* Duplicates are the other members in encounter order, and every Match of
\* the group has Percentage 100.
C16_FirstIsReference ==
    (Succeeded /\ Options.Type = "exact") =>
        \A k \in 1..Len(ret.groups) :
            /\ \A i \in 1..Len(ret.groups[k].Duplicates) :
                  /\ ret.groups[k].Reference < ret.groups[k].Duplicates[i]
                  /\ \A j \in 1..Len(ret.groups[k].Duplicates) :
                        i < j => ret.groups[k].Duplicates[i] < ret.groups[k].Duplicates[j]
            /\ \A i \in 1..Len(ret.groups[k].Matches) :
                  ret.groups[k].Matches[i].Percentage = 100
            /\ \A i \in 1..Len(files) :
                  (/\ Readable(i)
                   /\ SameContent(disk[files[i].Path],
                                  disk[files[ret.groups[k].Reference].Path]))
                  => ret.groups[k].Reference <= i

\* an exact-mode group of a reference and two duplicates has been returned
C16_Witness ==
    /\ Succeeded /\ Options.Type = "exact"
    /\ \E k \in 1..Len(ret.groups) :
          /\ Len(ret.groups[k].Duplicates) >= 2
          /\ Len(ret.groups[k].Matches) >= 2

\* the fuzzy score of the records i and j, from their names
FuzzyScore(i, j) ==
    compareWords(extractWords(files[i].Name), extractWords(files[j].Name), Options)

\* C18: in fuzzy mode a record is a duplicate of a reference only if
\* Match(reference, record).Percentage >= MinMatchPercent, and a claimed
\* record is neither the reference of a group nor a duplicate a second time.
C18_ClaimedAboveThresholdOnce ==
    (Succeeded /\ Options.Type = "fuzzy") =>
        \A k \in 1..Len(ret.groups) : \A i \in 1..Len(ret.groups[k].Duplicates) :
            /\ ret.groups[k].Matches[i].Percentage >= Options.MinMatchPercent
            /\ FuzzyScore(ret.groups[k].Reference, ret.groups[k].Duplicates[i])
                  >= Options.MinMatchPercent
            /\ \A l \in 1..Len(ret.groups) :
                  /\ ret.groups[l].Reference # ret.groups[k].Duplicates[i]
                  /\ \A j \in 1..Len(ret.groups[l].Duplicates) :
                        ret.groups[l].Duplicates[j] = ret.groups[k].Duplicates[i]
                        => (l = k /\ j = i)

\* a fuzzy-mode bucket held a reference, a record scoring at least the
\* threshold against it, which was claimed, and a record scoring above 0 and
\* below the threshold, which is not in the reference's group
C18_Witness ==
    /\ Succeeded /\ Options.Type = "fuzzy"
    /\ \E k \in 1..Len(ret.groups) : \E u \in 1..Len(files) :
          /\ files[u].Size = files[ret.groups[k].Reference].Size
          /\ FuzzyScore(ret.groups[k].Reference, u) > 0
          /\ FuzzyScore(ret.groups[k].Reference, u) < Options.MinMatchPercent
          /\ u \notin Members(ret.groups[k])
          /\ Len(ret.groups[k].Duplicates) >= 1

\* C21: in the result of one FindDuplicates call every record is in at most
\* one group and at most once in it: no record is a duplicate twice, none is
\* both a reference and a duplicate, and every group has a duplicate.
C21_GroupsDisjoint ==
    Succeeded =>
        \A k \in 1..Len(ret.groups) :
            /\ Len(ret.groups[k].Duplicates) >= 1
            /\ ret.groups[k].Reference \notin Range(ret.groups[k].Duplicates)
            /\ \A i, j \in 1..Len(ret.groups[k].Duplicates) :
                  i # j => ret.groups[k].Duplicates[i] # ret.groups[k].Duplicates[j]
            /\ \A l \in 1..Len(ret.groups) :
                  l # k => Members(ret.groups[k]) \cap Members(ret.groups[l]) = {}

\* two groups were built from the records of one size bucket
C21_Witness ==
    /\ Succeeded
    /\ \E k, l \in 1..Len(ret.groups) :
          /\ k # l
          /\ files[ret.groups[k].Reference].Size = files[ret.groups[l].Reference].Size

----------------------------------------------------------------------------
(* The content matcher on its own: calls of Matcher.Match, File.GetDigest  *)
(* and File.GetPartialDigest on the records of two files.                  *)

InitMatch ==
    /\ disk \in [1..2 -> {Entry("d1", <<"a">>, c, r) :
                            c \in Contents, r \in {"ok", "nofull", "none"}}]
    /\ Directories = <<"d1">>
    /\ RefDirs = {}
    /\ Options = ExactOptions
    /\ files = FreshRecords(disk)
    /\ filesBySize = <<>>
    /\ groups = <<>>
    /\ accumulated = <<>>
    /\ ret = [op |-> "none"]
    /\ NewEngine
    /\ wcall = [kind |-> "none", op |-> "none"]

MatchCall(first, second) ==
    LET r == Match(files, first, second, Options)
    IN  /\ files' = r.fs
        /\ ret' = [op |-> "Match", m |-> r.m]
        /\ UNCHANGED <<disk, Directories, RefDirs, Options, filesBySize, groups,
                       accumulated, wcall, groupFiles, concVars>>

GetDigestCall(i) ==
    LET r == GetDigest(files[i])
    IN  /\ files' = [files EXCEPT ![i] = r.file]
        /\ ret' = [op |-> "GetDigest", file |-> i, val |-> r.val, err |-> r.err]
        /\ UNCHANGED <<disk, Directories, RefDirs, Options, filesBySize, groups,
                       accumulated, wcall, groupFiles, concVars>>

GetPartialDigestCall(i) ==
    LET r == GetPartialDigest(files[i])
    IN  /\ files' = [files EXCEPT ![i] = r.file]
        /\ ret' = [op |-> "GetPartialDigest", file |-> i, val |-> r.val, err |-> r.err]
        /\ UNCHANGED <<disk, Directories, RefDirs, Options, filesBySize, groups,
                       accumulated, wcall, groupFiles, concVars>>

NextMatch ==
    \/ \E first, second \in 1..Len(files) : MatchCall(first, second)
    \/ \E i \in 1..Len(files) : GetDigestCall(i)
    \/ \E i \in 1..Len(files) : GetPartialDigestCall(i)

SpecMatch == InitMatch /\ [][NextMatch]_vars

\* C1: in exact mode, two readable files of equal size score 100 when their
\* content is identical and 0 when it differs, below and at the 3 MiB
\* partial-digest threshold alike.
C1_ExactScore ==
    (/\ ret.op = "Match"
     /\ Options.Type = "exact"
     /\ disk[files[ret.m.First].Path].readable = "ok"
     /\ disk[files[ret.m.Second].Path].readable = "ok"
     /\ files[ret.m.First].Size = files[ret.m.Second].Size)
    => ret.m.Percentage =
         (IF SameContent(disk[files[ret.m.First].Path], disk[files[ret.m.Second].Path])
          THEN 100 ELSE 0)

\* two readable files at the threshold whose windows agree and whose other
\* bytes differ have been compared and scored 0
C1_Witness ==
    /\ ret.op = "Match"
    /\ ret.m.First # ret.m.Second
    /\ disk[1].readable = "ok" /\ disk[2].readable = "ok"
    /\ disk[1].size >= MinPartialSize /\ disk[2].size = disk[1].size
    /\ disk[1].win = disk[2].win /\ disk[1].rest # disk[2].rest
    /\ ret.m.Percentage = 0

\* C13: in exact mode, Match on two records of differing size returns 0
\* without a digest computation: the Digest and DigestPart fields of both
\* records (of all records) are as before the call.  A call of GetDigest or
\* GetPartialDigest on a readable record whose field is unset would set it.
C13_DifferentSizeNoDigest ==
    [][(/\ ret'.op = "Match"
        /\ Options.Type = "exact"
        /\ files[ret'.m.First].Size # files[ret'.m.Second].Size)
       => (ret'.m.Percentage = 0 /\ files' = files)]_vars

\* two readable records of differing size whose digests were never computed
\* have been compared: the score is 0 and no digest field is set
C13_Witness ==
    /\ ret.op = "Match"
    /\ files[ret.m.First].Size # files[ret.m.Second].Size
    /\ disk[1].readable = "ok" /\ disk[2].readable = "ok"
    /\ ret.m.Percentage = 0
    /\ \A i \in 1..Len(files) : files[i].Digest = Nil /\ files[i].DigestPart = Nil

\* the window of the partial digest can be read from the file of record i
WindowReadable(i) == disk[files[i].Path].readable # "none"

----------------------------------------------------------------------------
(* The caches of one record: calls of File.GetDigest, File.GetPartialDigest *)
(* and File.ExtractWords in any order, while the file on the disk may be   *)
(* rewritten or become unreadable or readable between two calls.  wcall    *)
(* counts how often each value has been computed with success.             *)

DiskEntries ==
    {Entry("d1", <<"a">>, c, r) : c \in Contents, r \in {"ok", "nofull", "none"}}

InitCache ==
    /\ disk \in [1..1 -> DiskEntries]
    /\ Directories = <<"d1">>
    /\ RefDirs = {}
    /\ Options = ExactOptions
    /\ files = FreshRecords(disk)
    /\ filesBySize = <<>>
    /\ groups = <<>>
    /\ accumulated = <<>>
    /\ ret = [op |-> "none"]
    /\ NewEngine
    /\ wcall = [kind |-> "computed", op |-> "none", full |-> 0, part |-> 0, words |-> 0]

\* the counts after a call that computed the value named by computed
Counted(computed) ==
    [wcall EXCEPT !.full  = @ + (IF computed = "full" THEN 1 ELSE 0),
                  !.part  = @ + (IF computed = "part" THEN 1 ELSE 0),
                  !.words = @ + (IF computed = "words" THEN 1 ELSE 0)]

\* a call f.GetDigest(), f.GetPartialDigest() or f.ExtractWords() that
\* returned r, on the only record
CacheCallDone(op, r, err) ==
    /\ files' = [files EXCEPT ![1] = r.file]
    /\ ret' = [op |-> op, file |-> 1, val |-> r.val, err |-> err,
               computed |-> r.computed]
    /\ wcall' = Counted(r.computed)
    /\ UNCHANGED <<disk, Directories, RefDirs, Options, filesBySize, groups,
                   accumulated, groupFiles, concVars>>

DigestStep == CacheCallDone("GetDigest", GetDigest(files[1]), GetDigest(files[1]).err)

PartialDigestStep ==
    CacheCallDone("GetPartialDigest", GetPartialDigest(files[1]),
                  GetPartialDigest(files[1]).err)

WordsStep == CacheCallDone("ExtractWords", ExtractWords(files[1]), FALSE)

\* the file is rewritten, or its permissions change
FileChanges ==
    /\ \E e \in DiskEntries : e # disk[1] /\ disk' = [disk EXCEPT ![1] = e]
    /\ ret' = [op |-> "none"]
    /\ UNCHANGED <<Directories, RefDirs, Options, files, filesBySize, groups,
                   accumulated, wcall, groupFiles, concVars>>

NextCache ==
    \/ DigestStep
    \/ PartialDigestStep
    \/ WordsStep
    \/ FileChanges

SpecCache == InitCache /\ [][NextCache]_vars

\* the cache field a digest call fills on the record f
FieldOf(op, f) ==
    IF op = "GetDigest" \/ f.Size < MinPartialSize THEN f.Digest ELSE f.DigestPart

\* C20: for every sequence of GetDigest, GetPartialDigest and ExtractWords
\* calls on a record, each of the full digest, the partial digest and the
\* word list is computed with success at most once; a field that is set is
\* never changed and is what the call returns; a digest call that fails
\* returns the error and leaves its field unset; Size never changes.
C20_ComputedOnceAndCached ==
    [][/\ wcall'.full <= 1 /\ wcall'.part <= 1 /\ wcall'.words <= 1
       /\ files'[1].Size = files[1].Size
       /\ files[1].Digest # Nil => files'[1].Digest = files[1].Digest
       /\ files[1].DigestPart # Nil => files'[1].DigestPart = files[1].DigestPart
       /\ files[1].Words # Nil => files'[1].Words = files[1].Words
       /\ (ret'.op = "GetDigest" /\ files[1].Digest # Nil)
             => (ret'.val = files[1].Digest /\ ~ret'.err /\ ret'.computed = "none")
       /\ (ret'.op = "GetPartialDigest" /\ files[1].DigestPart # Nil)
             => (ret'.val = files[1].DigestPart /\ ~ret'.err /\ ret'.computed = "none")
       /\ (ret'.op = "ExtractWords" /\ files[1].Words # Nil)
             => (ret'.val = files[1].Words /\ ret'.computed = "none")
       /\ (ret'.op \in {"GetDigest", "GetPartialDigest"} /\ ret'.err)
             => (ret'.val = Nil /\ FieldOf(ret'.op, files'[1]) = Nil
                 /\ files' = files)
      ]_vars

\* the digest was computed once, the file was rewritten, and a later call
\* returned the cached digest, which is not the digest of the file as it
\* is now
C20_Witness ==
    /\ ret.op = "GetDigest" /\ ~ret.err /\ ret.computed = "none"
    /\ wcall.full = 1
    /\ disk[1].readable = "ok"
    /\ ret.val = files[1].Digest
    /\ ret.val # HashFile(1).val

----------------------------------------------------------------------------
(* internal/scanner/scanner.go: NewScanner.  The exclude string is turned   *)
(* into a regular expression and compiled with regexp.MustCompile, which   *)
(* panics when the expression is not valid.                                *)

ExcludeAlphabet == {"a", "*", ".", ",", "[", "]"}

Excludes == StringsUpTo(ExcludeAlphabet, MaxExcludeLen)

\* strings.Replace(s, old, new, -1) for a one-character old
RECURSIVE ReplaceAll(_, _, _)
ReplaceAll(s, old, new) ==
    IF s = <<>> THEN <<>>
    ELSE (IF Head(s) = old THEN new ELSE <<Head(s)>>) \o ReplaceAll(Tail(s), old, new)

\* the glob-to-regex translation of NewScanner
GlobToRegex(exclude) ==
    <<"^", "(">>
    \o ReplaceAll(ReplaceAll(ReplaceAll(ReplaceAll(exclude,
            ".", <<"\\", ".">>), "*", <<".", "*">>), "?", <<".">>), ",", <<"|">>)
    \o <<")", "$">>

\* regexp.Compile on the expressions the translation gives for the strings
\* over ExcludeAlphabet: the only error is a bracket expression that is not
\* closed.  A backslash escapes the next character; inside brackets a "]"
\* that comes first is a member, and "[" is a member.
RECURSIVE CompilesFrom(_, _, _)
CompilesFrom(re, inClass, first) ==
    IF re = <<>> THEN ~inClass
    ELSE IF Head(re) = "\\" THEN CompilesFrom(Tail(Tail(re)), inClass, FALSE)
    ELSE IF inClass
         THEN IF Head(re) = "]" /\ ~first THEN CompilesFrom(Tail(re), FALSE, FALSE)
              ELSE CompilesFrom(Tail(re), TRUE, FALSE)
         ELSE IF Head(re) = "[" THEN CompilesFrom(Tail(re), TRUE, TRUE)
              ELSE CompilesFrom(Tail(re), FALSE, FALSE)

Compiles(re) == CompilesFrom(re, FALSE, FALSE)

\* what a call NewScanner(dirs, exclude, ...) does: it returns a scanner, or
\* the goroutine panics in regexp.MustCompile
NewScannerOutcome(exclude) ==
    IF exclude # <<>> /\ ~Compiles(GlobToRegex(exclude)) THEN "panic" ELSE "scanner"

\* the call to come: NewScanner(wcall.b, wcall.a, ...) as runScan makes it
InitNew ==
    /\ IdleEngine
    /\ Options = ExactOptions
    /\ \E exclude \in Excludes :
          wcall = [kind |-> "exclude", a |-> exclude, b |-> <<"d1", "d2">>,
                   op |-> "none"]

NewScannerCall ==
    /\ wcall.kind = "exclude" /\ wcall.op = "none"
    /\ wcall' = [wcall EXCEPT !.op = "NewScanner"]
    /\ ret' = [op |-> "NewScanner", outcome |-> NewScannerOutcome(wcall.a)]
    /\ IF NewScannerOutcome(wcall.a) = "scanner"
       THEN Directories' = wcall.b /\ RefDirs' = {} /\ filesBySize' = <<>>
       ELSE UNCHANGED <<Directories, RefDirs, filesBySize>>
    /\ UNCHANGED <<disk, Options, files, groups, accumulated, groupFiles,
                   concVars>>

NextNew == NewScannerCall

SpecNew == InitNew /\ [][NextNew]_vars

\* the exclude string of the call does not translate to a valid expression
InvalidExclude == wcall.a # <<>> /\ ~Compiles(GlobToRegex(wcall.a))

\* C14: an exclude string whose translation is not a valid pattern makes the
\* construction of the scanner end in an error outcome, not a crash, and no
\* directory is walked.
C14_InvalidExcludeIsError ==
    (ret.op = "NewScanner" /\ InvalidExclude)
    => (ret.outcome = "error" /\ files = <<>>)

----------------------------------------------------------------------------
(* Properties of the filename scorer (SpecWords) *)

\* C2 (as stated): fuzzy scoring is symmetric: compareWords(W1,W2) equals
\* compareWords(W2,W1) for every two token lists and every option setting.
C2_Symmetric ==
    wcall.op = "compareWords" => wcall.fwd = wcall.bwd

\* C2 (amended): with similar-word matching disabled, compareWords(W1,W2)
\* equals compareWords(W2,W1), with and without length weighting.
C2_SymmetricWithoutSimilar ==
    (wcall.op = "compareWords" /\ ~Options.MatchSimilar) => wcall.fwd = wcall.bwd

\* two different token lists that overlap in part, scored both ways with
\* length weighting and without similar-word matching
C2_Witness ==
    /\ wcall.op = "compareWords"
    /\ ~Options.MatchSimilar /\ Options.WeightByLength
    /\ wcall.a # wcall.b /\ Len(wcall.a) # Len(wcall.b)
    /\ wcall.fwd > 0 /\ wcall.fwd < 100

\* C3: in fuzzy mode a file compared with a file of the same name scores
\* exactly 100, for every name, also when the name without its extension is
\* empty or only gives the fallback token.
C3_SelfCopyScores100 ==
    (wcall.op = "matchFuzzy" /\ wcall.a = wcall.b) => wcall.fwd = 100

\* C4 (as stated): every token of the list File.ExtractWords returns has
\* length at least 2, the fallback token included.
C4_NoShortToken ==
    wcall.op = "ExtractWords" =>
        \A i \in 1..Len(wcall.words) : Len(wcall.words[i]) >= MinTokenLen

\* C4 (amended): a token shorter than 2 characters is only ever present as the
\* single fallback token: a list of two or more tokens has no short token,
\* and a list with a short token is the one-element fallback list.
C4_ShortTokenOnlyAsFallback ==
    wcall.op = "ExtractWords" =>
        \/ \A i \in 1..Len(wcall.words) : Len(wcall.words[i]) >= MinTokenLen
        \/ /\ Len(wcall.words) = 1
           /\ KeepLong(Fields(ReplaceSeparators(
                  TrimSuffix(ToLower(wcall.a), Ext(ToLower(wcall.a)))))) = <<>>

\* a name that splits into a short and a long part: only the long one is kept
C4_Witness ==
    /\ wcall.op = "ExtractWords"
    /\ Len(Fields(ReplaceSeparators(ToLower(wcall.a)))) >= 2
    /\ \E i \in 1..Len(Fields(ReplaceSeparators(ToLower(wcall.a)))) :
           Len(Fields(ReplaceSeparators(ToLower(wcall.a)))[i]) < MinTokenLen
    /\ Len(wcall.words) = 1 /\ Len(wcall.words[1]) >= MinTokenLen
    /\ wcall.words[1] \in Range(Fields(ReplaceSeparators(ToLower(wcall.a))))

\* the matched weight and the denominator of a compareWords call
MatchedWeight == matchLoop(wcall.a, wcall.b, 0, Options)

Denominator == totalCountOf(wcall.a, wcall.b, Options)

\* the call has two non-empty lists and a positive denominator
Scorable == Len(wcall.a) > 0 /\ Len(wcall.b) > 0 /\ Denominator > 0

\* x / y rounded to the nearest integer, halves upwards
RoundDiv(x, y) == (2 * x + y) \div (2 * y)

\* C17 (as stated): the percentage is matchedWeight * 2 * 100 / denominator
\* rounded to the nearest integer and then capped at 100.
C17_RoundedPercentage ==
    (wcall.op = "compareWords" /\ Scorable) =>
        wcall.fwd = (IF RoundDiv(MatchedWeight * 2 * 100, Denominator) > 100 THEN 100
                     ELSE RoundDiv(MatchedWeight * 2 * 100, Denominator))

\* C17 (amended): the percentage lies in [0,100] and is matchedWeight * 2 *
\* 100 / denominator rounded down (the largest integer p with p *
\* denominator <= matchedWeight * 200) and then capped at 100; it is 0 when
\* a list is empty or the denominator is 0.
C17_TruncatedPercentage ==
    wcall.op = "compareWords" =>
        /\ wcall.fwd \in 0..100
        /\ Scorable =>
              /\ wcall.fwd * Denominator <= MatchedWeight * 2 * 100
              /\ wcall.fwd < 100 => (wcall.fwd + 1) * Denominator > MatchedWeight * 2 * 100
        /\ ~Scorable => wcall.fwd = 0

\* a call whose quotient is not an integer and lies below 100: 200/3 gives 66
C17_Witness ==
    /\ wcall.op = "compareWords" /\ Scorable
    /\ (MatchedWeight * 2 * 100) % Denominator # 0
    /\ wcall.fwd > 0 /\ wcall.fwd < 100
    /\ wcall.fwd # RoundDiv(MatchedWeight * 2 * 100, Denominator)

----------------------------------------------------------------------------
(* The engine shared by two goroutines.  The runner calls FindDuplicates,  *)
(* up to MaxRuns times, and may assign Scanner.Directories between its     *)
(* calls; the reader calls the queries.  Every call is a sequence of       *)
(* steps, and the steps of the two goroutines interleave as Engine.mu      *)
(* allows.                                                                 *)

\* Engine.GetGroups, GetTotalDuplicateCount and GetTotalDuplicateSize on the
\* group list gs, whose groups point to the records recs
GetGroups(gs) == gs

GetTotalDuplicateCount(gs) ==
    SumSeq([i \in 1..Len(gs) |-> Len(gs[i].Duplicates)])

dupSizes(g, recs) ==
    SumSeq([k \in 1..Len(g.Duplicates) |-> recs[g.Duplicates[k]].Size])

GetTotalDuplicateSize(gs, recs) ==
    SumSeq([i \in 1..Len(gs) |-> dupSizes(gs[i], recs)])

\* Engine.FilterGroups, for the predicates a caller may pass: every group, or
\* the groups of two or more duplicates
Predicates == {"any", "several"}

Holds(predicate, g) == predicate = "any" \/ Len(g.Duplicates) >= 2

FilterGroups(gs, predicate) == SelectSeq(gs, LAMBDA g : Holds(predicate, g))

\* the queries a caller may make: only FilterGroups takes a predicate
Queries ==
    {[kind |-> k, predicate |-> "any"] :
        k \in {"GetGroups", "GetTotalDuplicateCount", "GetTotalDuplicateSize"}}
    \cup {[kind |-> "FilterGroups", predicate |-> p] : p \in Predicates}

\* what a query returns: a number (n) or a list of groups (list)
Answer(kind, predicate, gs, recs) ==
    CASE kind = "GetGroups" -> [n |-> 0, list |-> GetGroups(gs)]
      [] kind = "GetTotalDuplicateCount" ->
            [n |-> GetTotalDuplicateCount(gs), list |-> <<>>]
      [] kind = "GetTotalDuplicateSize" ->
            [n |-> GetTotalDuplicateSize(gs, recs), list |-> <<>>]
      [] OTHER -> [n |-> 0, list |-> FilterGroups(gs, predicate)]

\* the caller assigns Scanner.Directories between two of its calls
SetDirectories(dirs) ==
    /\ calls.runner.pc = "idle"
    /\ dirs # Directories
    /\ Directories' = dirs
    /\ UNCHANGED <<disk, RefDirs, Options, files, filesBySize, groups,
                   accumulated, ret, wcall, groupFiles, concVars>>

\* FindDuplicates is called, and waits for the mutex
fdCall ==
    /\ calls.runner.pc = "idle"
    /\ calls.runner.run < MaxRuns
    /\ calls' = [calls EXCEPT !.runner.pc = "lock", !.runner.run = @ + 1]
    /\ UNCHANGED <<disk, Directories, RefDirs, Options, files, filesBySize,
                   groups, accumulated, ret, wcall, groupFiles, mu, arrays,
                   returned>>

\* e.mu.Lock() of FindDuplicates
fdLock ==
    /\ calls.runner.pc = "lock"
    /\ mu = "free"
    /\ mu' = "runner"
    /\ calls' = [calls EXCEPT !.runner.pc = "scan",
                              !.runner.before = [gs |-> groups, recs |-> groupFiles]]
    /\ UNCHANGED <<disk, Directories, RefDirs, Options, files, filesBySize,
                   groups, accumulated, ret, wcall, groupFiles, arrays, returned>>

\* bug variant: the group list is emptied before the scan is known to succeed
fdScannedClearing(sc) ==
    /\ files' = sc.files
    /\ filesBySize' = sc.filesBySize
    /\ IF sc.err
       THEN /\ calls' = [calls EXCEPT !.runner.pc = "fail"]
            /\ groups' = <<>>
            /\ groupFiles' = sc.files
            /\ arrays' = Append(arrays, <<>>)
       ELSE /\ \E buckets \in GetPotentialDuplicates(sc.filesBySize) :
                  calls' = [calls EXCEPT !.runner.pc = "reset",
                                         !.runner.buckets = buckets]
            /\ UNCHANGED <<groups, groupFiles, arrays>>

\* FindDuplicates from the scan to the buckets: Scanner.Scan, the error
\* return, Scanner.GetPotentialDuplicates.  sc is the outcome of the scan.
fdScanned(sc) ==
    /\ files' = sc.files
    /\ filesBySize' = sc.filesBySize
    /\ IF sc.err
       THEN calls' = [calls EXCEPT !.runner.pc = "fail"]
       ELSE \E buckets \in GetPotentialDuplicates(sc.filesBySize) :
                calls' = [calls EXCEPT !.runner.pc = "reset",
                                       !.runner.buckets = buckets]
    /\ UNCHANGED <<groups, groupFiles, arrays>>

fdScan ==
    /\ calls.runner.pc = "scan"
    /\ fdScanned(Scan)
    /\ UNCHANGED <<disk, Directories, RefDirs, Options, accumulated, ret,
                   wcall, mu, returned>>

\* bug variant: the list is emptied in place, e.groups = e.groups[:0]
fdResetInPlace ==
    /\ calls.runner.pc = "reset"
    /\ groups' = <<>>
    /\ arrays' = [arrays EXCEPT ![Len(arrays)] = <<>>]
    /\ groupFiles' = files
    /\ calls' = [calls EXCEPT !.runner.pc = "process"]
    /\ UNCHANGED <<disk, Directories, RefDirs, Options, files, filesBySize,
                   accumulated, ret, wcall, mu, returned>>

\* e.groups = make([]*DuplicateGroup, 0): an empty list in an array of its
\* own; the groups to come point to the records of this scan
fdReset ==
    /\ calls.runner.pc = "reset"
    /\ groups' = <<>>
    /\ arrays' = Append(arrays, <<>>)
    /\ groupFiles' = files
    /\ calls' = [calls EXCEPT !.runner.pc = "process"]
    /\ UNCHANGED <<disk, Directories, RefDirs, Options, files, filesBySize,
                   accumulated, ret, wcall, mu, returned>>

\* one round of the loop over the buckets: processFileGroup appends the groups
\* of the bucket to e.groups.  r is what processFileGroup gives.  The array
\* e.groups grows in was made during this call, whether or not append moves it.
fdAppend(r) ==
    \E acc \in r.orders :
        /\ groups' = groups \o acc
        /\ arrays' = [arrays EXCEPT ![Len(arrays)] = groups \o acc]
        /\ files' = r.fs
        /\ groupFiles' = r.fs

fdProcess ==
    /\ calls.runner.pc = "process"
    /\ calls.runner.buckets # <<>>
    /\ fdAppend(processFileGroup(files, Head(calls.runner.buckets), Options))
    /\ calls' = [calls EXCEPT !.runner.buckets = Tail(@)]
    /\ UNCHANGED <<disk, Directories, RefDirs, Options, filesBySize,
                   accumulated, ret, wcall, mu, returned>>

\* sort.Slice(e.groups, ...) once the loop is over: the list is sorted in place
fdSort ==
    /\ calls.runner.pc = "process"
    /\ calls.runner.buckets = <<>>
    /\ \E sorted \in SortSlice(groups) :
          /\ groups' = sorted
          /\ arrays' = [arrays EXCEPT ![Len(arrays)] = sorted]
    /\ accumulated' = groups
    /\ calls' = [calls EXCEPT !.runner.pc = "return"]
    /\ UNCHANGED <<disk, Directories, RefDirs, Options, files, filesBySize,
                   ret, wcall, groupFiles, mu, returned>>

\* return e.groups, nil and the deferred e.mu.Unlock()
fdReturn ==
    /\ calls.runner.pc = "return"
    /\ ret' = [op |-> "FindDuplicates", groups |-> groups, isNil |-> FALSE,
               err |-> FALSE]
    /\ returned' = returned \cup {[arr |-> Len(arrays), list |-> groups]}
    /\ mu' = "free"
    /\ calls' = [calls EXCEPT !.runner.pc = "idle"]
    /\ UNCHANGED <<disk, Directories, RefDirs, Options, files, filesBySize,
                   groups, accumulated, wcall, groupFiles, arrays>>

\* return nil, fmt.Errorf("scan error: ...") and the deferred e.mu.Unlock()
fdFail ==
    /\ calls.runner.pc = "fail"
    /\ ret' = [op |-> "FindDuplicates", groups |-> Nil, isNil |-> TRUE,
               err |-> TRUE]
    /\ mu' = "free"
    /\ calls' = [calls EXCEPT !.runner.pc = "idle"]
    /\ UNCHANGED <<disk, Directories, RefDirs, Options, files, filesBySize,
                   groups, accumulated, wcall, groupFiles, arrays, returned>>

\* a query is called, and waits for the mutex
qCall(kind, predicate) ==
    /\ calls.reader.pc = "idle"
    /\ calls' = [calls EXCEPT !.reader = [pc |-> "lock", kind |-> kind,
                                          predicate |-> predicate, arr |-> 0,
                                          n |-> 0, list |-> <<>>]]
    /\ UNCHANGED <<disk, Directories, RefDirs, Options, files, filesBySize,
                   groups, accumulated, ret, wcall, groupFiles, mu, arrays,
                   returned>>

\* bug variant: the query goes on without the mutex
qLockSkipped ==
    /\ calls.reader.pc = "lock"
    /\ calls' = [calls EXCEPT !.reader.pc = "read"]
    /\ UNCHANGED <<disk, Directories, RefDirs, Options, files, filesBySize,
                   groups, accumulated, ret, wcall, groupFiles, mu, arrays,
                   returned>>

\* e.mu.Lock() of a query
qLock ==
    /\ calls.reader.pc = "lock"
    /\ mu = "free"
    /\ mu' = "reader"
    /\ calls' = [calls EXCEPT !.reader.pc = "read"]
    /\ UNCHANGED <<disk, Directories, RefDirs, Options, files, filesBySize,
                   groups, accumulated, ret, wcall, groupFiles, arrays, returned>>

\* the body of the query reads e.groups; GetGroups takes the slice itself
qAnswered(a) ==
    calls' = [calls EXCEPT !.reader.pc = "unlock", !.reader.n = a.n,
                           !.reader.list = a.list,
                           !.reader.arr = IF calls.reader.kind = "GetGroups"
                                          THEN Len(arrays) ELSE 0]

qRead ==
    /\ calls.reader.pc = "read"
    /\ qAnswered(Answer(calls.reader.kind, calls.reader.predicate, groups,
                        groupFiles))
    /\ UNCHANGED <<disk, Directories, RefDirs, Options, files, filesBySize,
                   groups, accumulated, ret, wcall, groupFiles, mu, arrays,
                   returned>>

\* the query returns, and the deferred e.mu.Unlock()
qUnlock ==
    /\ calls.reader.pc = "unlock"
    /\ mu' = "free"
    /\ returned' = IF calls.reader.kind = "GetGroups"
                   THEN returned \cup {[arr |-> calls.reader.arr,
                                        list |-> calls.reader.list]}
                   ELSE returned
    /\ calls' = [calls EXCEPT !.reader = NoCalls.reader]
    /\ UNCHANGED <<disk, Directories, RefDirs, Options, files, filesBySize,
                   groups, accumulated, ret, wcall, groupFiles, arrays>>

\* two sizes of readable files, so that a scan finds up to two buckets
ConcKinds ==
    {Entry("d1", <<"a">>, [size |-> sz, win |-> 0, rest |-> 0], "ok") :
        sz \in {MinPartialSize - 1, MinPartialSize}}

ConcDirLists ==
    {<<"d1", "d2">>, <<"d1", "d1", "d2">>, <<"d1", "denied">>}

InitConc ==
    /\ Options = ExactOptions
    /\ disk \in Disks(ConcKinds)
    /\ Directories \in ConcDirLists
    /\ RefDirs = {}
    /\ files = <<>>
    /\ filesBySize = <<>>
    /\ groups = <<>>
    /\ accumulated = <<>>
    /\ ret = [op |-> "none"]
    /\ NewEngine
    /\ wcall = [kind |-> "none", op |-> "none"]

NextConc ==
    \/ \E dirs \in ConcDirLists : SetDirectories(dirs)
    \/ fdCall
    \/ fdLock
    \/ fdScan
    \/ fdReset
    \/ fdProcess
    \/ fdSort
    \/ fdReturn
    \/ fdFail
    \/ \E q \in Queries : qCall(q.kind, q.predicate)
    \/ qLock
    \/ qRead
    \/ qUnlock

SpecConc == InitConc /\ [][NextConc]_vars

----------------------------------------------------------------------------
(* Properties of the shared engine *)

\* the group lists a query may rightly see where the runner stands: the stored
\* list when no call holds the mutex; else the list as the running call found
\* it and, once that call has sorted, the list it returns
StoredList == [gs |-> groups, recs |-> groupFiles]

Committed ==
    IF calls.runner.pc \in {"idle", "lock"} THEN {StoredList}
    ELSE IF calls.runner.pc = "return" THEN {calls.runner.before, StoredList}
    ELSE {calls.runner.before}

\* the step in which a query reads Engine.groups, and what it then holds
QueryReads == calls.reader.pc = "read" /\ calls'.reader.pc = "unlock"

QueryAnswer == [n |-> calls.reader.n, list |-> calls.reader.list]

\* the array a returned slice points to still holds the groups of the slice
Intact(r) ==
    /\ r.arr \in 1..Len(arrays)
    /\ Len(arrays[r.arr]) >= Len(r.list)
    /\ \A i \in 1..Len(r.list) : arrays[r.arr][i] = r.list[i]

\* C22: a query that runs beside a call of FindDuplicates answers from the
\* group list as that call found it or from the complete, sorted list the call
\* returns, never from a list in the making; and the slices FindDuplicates and
\* GetGroups have returned keep their groups through later calls
C22_QueriesSeeWholeRuns ==
    /\ [][QueryReads =>
            \E c \in Committed :
                QueryAnswer' = Answer(calls.reader.kind, calls.reader.predicate,
                                      c.gs, c.recs)]_vars
    /\ [](\A r \in returned : Intact(r))

\* C22 witness: the second call of FindDuplicates has sorted its list and
\* still holds the mutex, a query waits for it, and the slice the first call
\* returned keeps its groups, which are not those of the new list
C22_Witness ==
    /\ calls.runner.pc = "return" /\ calls.runner.run = 2
    /\ calls.reader.pc = "lock"
    /\ mu = "runner"
    /\ \E r \in returned :
          /\ r.arr = Len(arrays) - 1
          /\ r.list # <<>> /\ r.list # groups
          /\ Intact(r)

\* the last call of FindDuplicates has returned a scan error
FailedRun ==
    calls.runner.pc = "idle" /\ ret.op = "FindDuplicates" /\ ret.err

\* the step in which the scan of FindDuplicates fails
ScanFails == calls.runner.pc = "scan" /\ calls'.runner.pc = "fail"

\* the first configured directory that cannot be scanned, and the number of
\* records of the directories listed before it
Unscannable(path) == DirStatus(path) # "ok"

FirstUnscannable ==
    CHOOSE i \in 1..Len(Directories) :
        /\ Unscannable(Directories[i])
        /\ \A j \in 1..(i - 1) : ~Unscannable(Directories[j])

ScannedBeforeFailure ==
    Cardinality({<<j, e>> \in (1..(FirstUnscannable - 1)) \X (1..Len(disk)) :
                    disk[e].dir = Directories[j]})

\* C23: a call of FindDuplicates that fails with a scan error leaves the
\* stored group list and its records as it found them, so that GetGroups,
\* GetTotalDuplicateCount and GetTotalDuplicateSize answer as before the call:
\* with the list the last successful call returned, or the empty list if no
\* call has succeeded.  The scanner's file list is that of the failed scan:
\* fresh records of the directories listed before the one that failed.
C23_FailedRunKeepsGroups ==
    /\ [][ScanFails =>
            /\ StoredList' = StoredList
            /\ Len(files') = ScannedBeforeFailure
            /\ \A k \in 1..Len(files') :
                  files'[k].Digest = Nil /\ files'[k].DigestPart = Nil]_vars
    /\ [](FailedRun =>
            /\ StoredList = calls.runner.before
            /\ \A kind \in {"GetGroups", "GetTotalDuplicateCount",
                            "GetTotalDuplicateSize"} :
                  Answer(kind, "any", groups, groupFiles)
                      = Answer(kind, "any", calls.runner.before.gs,
                               calls.runner.before.recs)
            /\ groups = arrays[Len(arrays)]
            /\ IF Len(arrays) = 1 THEN groups = <<>>
               ELSE [arr |-> Len(arrays), list |-> groups] \in returned)

\* C23 witness: a call has failed after a call that found duplicates; the
\* groups of that call are still stored, and the scanner's file list no
\* longer holds their records
C23_Witness ==
    /\ FailedRun
    /\ calls.runner.run = 2
    /\ groups # <<>>
    /\ GetTotalDuplicateSize(groups, groupFiles) > 0
    /\ files # groupFiles

====
